---- MODULE Spec2Model ----
(***************************************************************************)
(* A model of streamlit_app.py, the ESA dropshipping dashboard: the        *)
(* base-URL resolution, the two HTTP helpers api_get and api_post, and the *)
(* render pass (one run of the script, top to bottom) with its four        *)
(* panels and five forms.                                                  *)
(*                                                                         *)
(* JSON values are tagged records; Python's None and JSON null are the     *)
(* same value, as they are after r.json().  Displayed texts are strings    *)
(* built as the f-strings of the source build them; the arrow of the       *)
(* source's messages is written "->" and accents/emoji are dropped, since  *)
(* the module is ASCII.                                                    *)
(***************************************************************************)
EXTENDS Integers, Sequences, FiniteSets, TLC

VARIABLES
    text_input, \* the value of the "API Base URL" field (line 15)
    API_BASE,   \* the resolved base URL (line 12-17)
    pc,         \* "idle", "done", or the line of the call that is in flight
    submitted,  \* the form whose submit button was clicked for this run, or "none"
    inflight,   \* the set of requests sent and not yet answered
    sent,       \* every request sent in this run, in order
    resp,       \* the outcome of the last request (what requests.get/post gave)
    ret,        \* what the last api_get / api_post returned
    shown,      \* the messages displayed in this run, in order
    raised,     \* the exception that ended the run, "" when none
    health,     \* script global `health` (line 44)
    orders,     \* script global `orders` (lines 61, 154)
    products,   \* script global `products` (lines 85, 116)
    items,      \* script global `items` (lines 130, 133); empty until it is set
    shipment_id, \* script global `shipment_id` (line 187)
    new_status, \* script global `new_status` (line 188)
    res         \* script global `res` (lines 109, 148, 180, 192)

vars == <<text_input, API_BASE, pc, submitted, inflight, sent, resp, ret, shown, raised,
          health, orders, products, items, shipment_id, new_status, res>>

----------------------------------------------------------------------------
(* Bounds of the model.                                                    *)

\* The quantities the "Cantidad" input of the order form is drawn from: 1..MaxQty.
MaxQty == 2
\* The shipment ids the "Shipment ID" input is drawn from: 1..MaxShipmentId.
MaxShipmentId == 1

----------------------------------------------------------------------------
(* JSON values and the Python operations the script applies to them.       *)

None == [t |-> "null"]
JBool(b) == [t |-> "bool", b |-> b]
JNum(n) == [t |-> "num", n |-> n]
JStr(s) == [t |-> "str", s |-> s]
JList(e) == [t |-> "list", e |-> e]
JObj(f) == [t |-> "obj", f |-> f]
EmptyDict == JObj(<<>>)
EmptyList == JList(<<>>)
\* A value no program variable holds yet (the name is unbound).
Unset == [t |-> "unset"]

\* bool(v)
Truthy(v) ==
    CASE v.t = "null" -> FALSE
      [] v.t = "bool" -> v.b
      [] v.t = "num" -> v.n # 0
      [] v.t = "str" -> v.s # ""
      [] v.t = "list" -> Len(v.e) > 0
      [] v.t = "obj" -> DOMAIN v.f # {}
      [] OTHER -> FALSE

\* dict.get(k): the value, None when the key is absent.
DictGet(d, k) == IF k \in DOMAIN d.f THEN d.f[k] ELSE None

\* str(v), as an f-string formats a value.
Str(v) ==
    CASE v.t = "null" -> "None"
      [] v.t = "bool" -> IF v.b THEN "True" ELSE "False"
      [] v.t = "num" -> ToString(v.n)
      [] v.t = "str" -> v.s
      [] v.t = "list" -> "[...]"
      [] OTHER -> "{...}"

\* `x or []`
OrEmptyList(v) == IF Truthy(v) THEN v ELSE EmptyList

\* s.endswith(suffix)
EndsWith(s, suffix) ==
    /\ Len(s) >= Len(suffix)
    /\ SubSeq(s, Len(s) - Len(suffix) + 1, Len(s)) = suffix

\* s.startswith(prefix)
StartsWith(s, prefix) ==
    /\ Len(s) >= Len(prefix)
    /\ SubSeq(s, 1, Len(prefix)) = prefix

\* `u in s` for strings
Contains(s, u) ==
    \E i \in 1..(Len(s) - Len(u) + 1) : SubSeq(s, i, i + Len(u) - 1) = u

----------------------------------------------------------------------------
(* The base URL.                                                           *)

DEFAULT_API == "https://esa-dropshipping.onrender.com"

\* A variant that cuts every trailing slash (text.rstrip("/")).
RECURSIVE Normalize_rstrip(_)
Normalize_rstrip(text) ==
    IF EndsWith(text, "/") THEN Normalize_rstrip(SubSeq(text, 1, Len(text) - 1)) ELSE text

\* Lines 16-17: one trailing slash is cut, when there is one.
Normalize(text) ==
    IF EndsWith(text, "/") THEN SubSeq(text, 1, Len(text) - 1) ELSE text

----------------------------------------------------------------------------
(* The remote API, as the requests library reports it.                     *)

\* The response bodies of the model and what r.json() makes of each; a text
\* that is not in the table is not JSON (r.json() raises).
JsonDocs ==
    ("null" :> None)
    @@ ("{}" :> EmptyDict)
    @@ ("[]" :> EmptyList)
    @@ ("[1]" :> JList(<<JNum(1)>>))
    @@ ("\"ok\"" :> JStr("ok"))
    @@ ("{\"status\": \"ok\"}" :> JObj([status |-> JStr("ok")]))
    @@ ("{\"status\": \"down\"}" :> JObj([status |-> JStr("down")]))
    @@ ("{\"detail\": \"x\"}" :> JObj([detail |-> JStr("x")]))
    @@ ("{\"ok\": true}" :> JObj([ok |-> JBool(TRUE)]))
    @@ ("{\"ok\": false}" :> JObj([ok |-> JBool(FALSE)]))
    @@ ("{\"ok\": \"no\"}" :> JObj([ok |-> JStr("no")]))
    @@ ("{\"id\": 7, \"name\": \"A\"}" :> JObj([id |-> JNum(7), name |-> JStr("A")]))
    @@ ("[{\"id\": 1}]" :> JList(<<JObj([id |-> JNum(1)])>>))
    @@ ("[{\"status\": \"pending\"}]" :> JList(<<JObj([status |-> JStr("pending")])>>))
    @@ ("[{\"status\": \"shipped\"}]" :> JList(<<JObj([status |-> JStr("shipped")])>>))
    @@ ("[{\"status\": \"pending\"}, {\"status\": \"pending\"}, {\"status\": \"delivered\"}]"
          :> JList(<<JObj([status |-> JStr("pending")]), JObj([status |-> JStr("pending")]),
                     JObj([status |-> JStr("delivered")])>>))
    @@ ("[{\"status\": \"at_df\"}, {\"id\": 2}]"
          :> JList(<<JObj([status |-> JStr("at_df")]), JObj([id |-> JNum(2)])>>))
    @@ ("[{\"id\": 1, \"name\": \"A\", \"sku\": \"S1\"}]"
          :> JList(<<JObj([id |-> JNum(1), name |-> JStr("A"), sku |-> JStr("S1")])>>))
    @@ ("[{\"id\": 1, \"name\": \"A\", \"sku\": \"S1\"}, {\"id\": 2, \"name\": \"B\", \"sku\": \"S2\"}]"
          :> JList(<<JObj([id |-> JNum(1), name |-> JStr("A"), sku |-> JStr("S1")]),
                     JObj([id |-> JNum(2), name |-> JStr("B"), sku |-> JStr("S2")])>>))
    @@ ("[{\"id\": 1, \"name\": \"A\"}]"
          :> JList(<<JObj([id |-> JNum(1), name |-> JStr("A")])>>))

\* A marker for "r.json() raised".
NotJson == [t |-> "invalid"]

\* r.json()
ParseJson(text) == IF text \in DOMAIN JsonDocs THEN JsonDocs[text] ELSE NotJson

\* The outcomes of one request: an exception of the transport, or a response.
Timeout == [kind |-> "exc", detail |-> "Read timed out."]
ConnError == [kind |-> "exc", detail |-> "Connection refused"]
BadUrl == [kind |-> "exc", detail |-> "Invalid URL: No scheme supplied"]
Response(status, text) == [kind |-> "resp", status |-> status, text |-> text]

\* The reason phrase requests puts in an HTTPError's text.
Reason(status) ==
    CASE status = 404 -> "Not Found"
      [] status = 422 -> "Unprocessable Entity"
      [] status = 500 -> "Internal Server Error"
      [] status = 503 -> "Service Unavailable"
      [] OTHER -> "Error"

\* r.raise_for_status(): the text of the HTTPError it raises, "" when it
\* raises none (requests raises for 400..599 only).
RaiseForStatus(r, url) ==
    IF r.status >= 400 /\ r.status < 500
    THEN ToString(r.status) \o " Client Error: " \o Reason(r.status) \o " for url: " \o url
    ELSE IF r.status >= 500 /\ r.status < 600
    THEN ToString(r.status) \o " Server Error: " \o Reason(r.status) \o " for url: " \o url
    ELSE ""

\* requests refuses a URL without a scheme before anything is sent.
ValidUrl(url) == StartsWith(url, "http://") \/ StartsWith(url, "https://")

----------------------------------------------------------------------------
(* Displayed messages.                                                     *)

Msg(fn, text) == [fn |-> fn, text |-> text]

----------------------------------------------------------------------------
(* The HTTP helpers.  Each yields what it returns and what it displays.    *)

JsonDecodeError == "Expecting value: line 1 column 1 (char 0)"

\* A variant without line 23 (the status is not looked at).
api_get_unchecked(base, path, out) ==
    LET url == base \o path
        fail(e) == [ret |-> None, msgs |-> <<Msg("error", "GET " \o url \o " -> " \o e)>>]
    IN  IF out.kind = "exc" THEN fail(out.detail)
        ELSE IF ParseJson(out.text) = NotJson THEN fail(JsonDecodeError)
        ELSE [ret |-> ParseJson(out.text), msgs |-> <<>>]

\* Lines 19-27.
api_get(base, path, out) ==
    LET url == base \o path
        fail(e) == [ret |-> None, msgs |-> <<Msg("error", "GET " \o url \o " -> " \o e)>>]
    IN  IF out.kind = "exc" THEN fail(out.detail)
        ELSE IF RaiseForStatus(out, url) # "" THEN fail(RaiseForStatus(out, url))
        ELSE IF ParseJson(out.text) = NotJson THEN fail(JsonDecodeError)
        ELSE [ret |-> ParseJson(out.text), msgs |-> <<>>]

\* A variant without lines 33-34.
StatusReport_silent(url, out) == <<>>

\* Lines 33-34: the status and the raw body are displayed for a status >= 400.
StatusReport(url, out) ==
    IF out.status >= 400
    THEN <<Msg("error", "POST " \o url \o " -> " \o ToString(out.status) \o ": " \o out.text)>>
    ELSE <<>>

\* A variant without line 38: an empty body falls through and None is returned.
api_post_no_empty_record(base, path, out) ==
    LET url == base \o path
        fail(before, e) ==
            [ret |-> None, msgs |-> before \o <<Msg("error", "POST " \o url \o " -> " \o e)>>]
    IN  IF out.kind = "exc" THEN fail(<<>>, out.detail)
        ELSE IF RaiseForStatus(out, url) # ""
        THEN fail(StatusReport(url, out), RaiseForStatus(out, url))
        ELSE IF out.text # ""
        THEN IF ParseJson(out.text) = NotJson
             THEN fail(StatusReport(url, out), JsonDecodeError)
             ELSE [ret |-> ParseJson(out.text), msgs |-> StatusReport(url, out)]
        ELSE [ret |-> None, msgs |-> StatusReport(url, out)]

\* Lines 29-41.
api_post(base, path, out) ==
    LET url == base \o path
        fail(before, e) ==
            [ret |-> None, msgs |-> before \o <<Msg("error", "POST " \o url \o " -> " \o e)>>]
    IN  IF out.kind = "exc" THEN fail(<<>>, out.detail)
        ELSE IF RaiseForStatus(out, url) # ""
        THEN fail(StatusReport(url, out), RaiseForStatus(out, url))
        ELSE IF out.text # ""
        THEN IF ParseJson(out.text) = NotJson
             THEN fail(StatusReport(url, out), JsonDecodeError)
             ELSE [ret |-> ParseJson(out.text), msgs |-> StatusReport(url, out)]
        ELSE [ret |-> EmptyDict, msgs |-> StatusReport(url, out)]

----------------------------------------------------------------------------
(* pandas, as far as the script uses it.                                   *)

\* The set of the elements of a sequence.
Range(seq) == {seq[i] : i \in 1..Len(seq)}

\* pd.DataFrame(v): err is the exception the constructor raises ("" when
\* none), rows the records, columns the column names.  A list of records
\* gets the union of their keys as columns, a list of scalars the single
\* column "0"; a record of scalars and a bare scalar are refused.
DataFrame(v) ==
    CASE v.t = "list" ->
           [err |-> "",
            rows |-> v.e,
            columns |-> IF \A x \in Range(v.e) : x.t = "obj"
                        THEN UNION {DOMAIN x.f : x \in Range(v.e)}
                        ELSE {"0"}]
      [] v.t = "obj" /\ DOMAIN v.f = {} -> [err |-> "", rows |-> <<>>, columns |-> {}]
      [] v.t = "null" -> [err |-> "", rows |-> <<>>, columns |-> {}]
      [] OTHER -> [err |-> "ValueError", rows |-> <<>>, columns |-> {}]

\* df.empty
DfEmpty(df) == Len(df.rows) = 0 \/ df.columns = {}

\* int(df["status"].value_counts().get(status, 0)): rows without the column
\* hold NaN, which value_counts drops.
StatusCount(df, status) ==
    Cardinality({i \in 1..Len(df.rows) :
        /\ df.rows[i].t = "obj"
        /\ "status" \in DOMAIN df.rows[i].f
        /\ df.rows[i].f["status"] = JStr(status)})

----------------------------------------------------------------------------
(* The panels.  Each piece of the script between two network calls is an   *)
(* operator that yields the messages it displays and the exception it      *)
(* raises ("" when it raises none; the messages are those displayed before *)
(* the exception).                                                         *)

Out(msgs, exc) == [msgs |-> msgs, raised |-> exc]

\* Lines 45-48.
HealthIndicator(h) ==
    IF ~Truthy(h) THEN Out(<<Msg("sidebar.error", "Sin conexion")>>, "")
    ELSE IF h.t # "obj" THEN Out(<<>>, "AttributeError")
    ELSE IF DictGet(h, "status") = JStr("ok")
    THEN Out(<<Msg("sidebar.success", "Conectado")>>, "")
    ELSE Out(<<Msg("sidebar.error", "Sin conexion")>>, "")

\* The five statuses shown as metrics, with their labels (lines 73-77).
MetricStatuses == <<"pending", "forwarding", "at_df", "in_transit_mx", "delivered">>
MetricLabels == <<"Pending", "Forwarding", "At DF", "En MX", "Entregadas">>

Metric(label, n) == [fn |-> "metric", text |-> label, value |-> n]

\* Lines 62-80.
OverviewPanel(o) ==
    IF o = None
    THEN Out(<<Msg("info", "Aun no existe el endpoint GET /orders"), Msg("code", "list_orders")>>, "")
    ELSE LET df == DataFrame(o)
         IN  IF df.err # "" THEN Out(<<>>, df.err)
             ELSE IF ~DfEmpty(df)
             THEN IF "status" \notin df.columns THEN Out(<<>>, "KeyError")
                  ELSE Out([i \in 1..5 |-> Metric(MetricLabels[i], StatusCount(df, MetricStatuses[i]))]
                             \o <<Msg("dataframe", "orders")>>, "")
             ELSE Out(<<Msg("info", "No hay ordenes aun")>>, "")

\* len(v): the length, -1 when v has none (TypeError).
PyLen(v) ==
    CASE v.t = "list" -> Len(v.e)
      [] v.t = "str" -> Len(v.s)
      [] v.t = "obj" -> Cardinality(DOMAIN v.f)
      [] OTHER -> -1

\* Lines 86-88, p being `api_get("/products") or []`.
ProductsTable(p) ==
    IF PyLen(p) < 0 THEN Out(<<>>, "TypeError")
    ELSE LET count == <<Msg("write", "Productos cargados: " \o ToString(PyLen(p)))>>
         IN  IF ~Truthy(p) THEN Out(count, "")
             ELSE IF DataFrame(p).err # "" THEN Out(count, DataFrame(p).err)
             ELSE Out(count \o <<Msg("dataframe", "products")>>, "")

\* Lines 110-111, 149-150, 181-182: `if res: st.success(f"... {res.get(a)} ... {res.get(b)}")`.
Confirmation(r, prefix, a, mid, b, suffix) ==
    IF ~Truthy(r) THEN Out(<<>>, "")
    ELSE IF r.t # "obj" THEN Out(<<>>, "AttributeError")
    ELSE Out(<<Msg("success", prefix \o Str(DictGet(r, a)) \o mid \o Str(DictGet(r, b)) \o suffix)>>, "")

ProductCreated(r) == Confirmation(r, "Producto creado: ", "id", " - ", "name", "")
OrderCreated(r) == Confirmation(r, "Orden creada: #", "id", " para ", "customer_name", "")
ShipmentCreated(r) == Confirmation(r, "Envio creado: #", "id", " (order ", "order_id", ")")

\* Line 117: the exception the comprehension raises over p, "" when none.
\* Iterating a number or a boolean, and subscripting an element that is not
\* a record, is a TypeError; a record without one of the keys a KeyError.
ProductMapError(p) ==
    IF p.t \notin {"list", "obj", "str"} THEN "TypeError"
    ELSE IF p.t = "obj" \/ p.t = "str" THEN (IF Truthy(p) THEN "TypeError" ELSE "")
    ELSE IF Len(p.e) = 0 THEN ""
    ELSE LET bad == {i \in 1..Len(p.e) :
                        p.e[i].t # "obj" \/ ~({"id", "name", "sku"} \subseteq DOMAIN p.e[i].f)}
             first == CHOOSE i \in bad : \A j \in bad : i <= j
         IN  IF bad = {} THEN ""
             ELSE IF p.e[first].t # "obj" THEN "TypeError" ELSE "KeyError"

\* The label of a product (line 117).
Label(prod) ==
    "[" \o Str(prod.f["id"]) \o "] " \o Str(prod.f["name"]) \o " (SKU " \o Str(prod.f["sku"]) \o ")"

\* Line 117: product_map, a function from labels to ids; of two products
\* with one label the later one's id stays.
ProductMap(p) ==
    IF p.t # "list" \/ ProductMapError(p) # "" THEN <<>>
    ELSE [l \in {Label(p.e[i]) : i \in 1..Len(p.e)} |->
            LET last == CHOOSE i \in 1..Len(p.e) :
                            /\ Label(p.e[i]) = l
                            /\ \A j \in 1..Len(p.e) : Label(p.e[j]) = l => j <= i
            IN  p.e[last].f["id"]]

\* Line 128: what the selectbox can return: a label of product_map; "" stands
\* for the selectbox that is not there.
Options(p) == IF DOMAIN ProductMap(p) = {} THEN {""} ELSE DOMAIN ProductMap(p)

\* Lines 127-133: the items of the order, for the label chosen in the
\* selectbox and the quantity typed.
Items(pmap, label, qty) ==
    IF DOMAIN pmap # {} THEN <<[product_id |-> pmap[label], qty |-> qty]>> ELSE <<>>

\* Lines 155-158.
OrdersListing(o) ==
    IF o.t = "list" /\ Truthy(o) THEN Out(<<Msg("dataframe", "orders list")>>, "")
    ELSE Out(<<Msg("info", "Sin ordenes o falta el endpoint GET /orders.")>>, "")

\* A variant that takes any non-empty result for a success (`if res:`).
OkCheck_nonempty(r) ==
    IF ~Truthy(r) THEN "no"
    ELSE IF r.t # "obj" THEN "raise"
    ELSE "yes"

\* Line 193: the condition `res and res.get("ok")`: "raise" when res has no
\* get, else whether the value is truthy.
OkCheck(r) ==
    IF ~Truthy(r) THEN "no"
    ELSE IF r.t # "obj" THEN "raise"
    ELSE IF Truthy(DictGet(r, "ok")) THEN "yes" ELSE "no"

\* Lines 193-194.
StatusUpdated(r, id, status) ==
    CASE OkCheck(r) = "raise" -> Out(<<>>, "AttributeError")
      [] OkCheck(r) = "yes" ->
           Out(<<Msg("success", "Shipment " \o ToString(id) \o " -> " \o status)>>, "")
      [] OTHER -> Out(<<>>, "")

\* Lines 199-209.
ShipmentsListing(s) ==
    IF s.t = "list"
    THEN IF Truthy(s) THEN Out(<<Msg("dataframe", "shipments")>>, "")
         ELSE Out(<<Msg("info", "No hay envios aun.")>>, "")
    ELSE Out(<<Msg("info", "Aun no existe el endpoint GET /shipping"), Msg("code", "list_shipments")>>, "")

----------------------------------------------------------------------------
(* The render pass: one run of the script.  A state with pc = "l<n>" is    *)
(* the script blocked in the call of line n; each action below is the      *)
(* arrival of that call's outcome followed by the script's code up to the  *)
(* next call (which it sends) or to the end of the script.                 *)

Forms == {"create_product", "create_order", "create_shipment", "update_status"}

\* The request a helper sends: requests.get(url) / requests.post(url, json=payload or {}).
Request(method, base, path, payload) ==
    [method |-> method, url |-> base \o path, path |-> path, json |-> payload]

\* Lines 101-108, 140-147, 173-179: the payloads, with the forms' default texts.
ProductPayload ==
    [sku |-> "WAL-0001", name |-> "Playera basica", description |-> "Algodon 100%",
     price_usd |-> "9.9", weight_kg |-> "0.25", origin |-> "US"]
OrderPayload(its) ==
    [customer_name |-> "Juan Perez", customer_email |-> "juan@example.com",
     ship_to_city |-> "Monterrey", ship_to_state |-> "NL", ship_to_zip |-> "64000",
     items |-> its]
ShipmentPayload ==
    [order_id |-> 1, carrier |-> "DeliverFever", tracking |-> "DF-TEST-001",
     dest_city |-> "Monterrey", dest_state |-> "NL"]

\* Line 188: the statuses the update form offers, and the one selected
\* when the user selects none (the first).
StatusChoices == {"at_df", "in_transit_mx", "delivered"}
DefaultStatus == "at_df"

\* Lines 129 and 187: the values of the number inputs the user leaves alone.
DefaultQty == 1
DefaultShipmentId == 1

\* Line 191.
StatusPath(id, status) == "/shipping/" \o ToString(id) \o "/status/" \o status

\* A variant in which a click sets every form's button.
Clicked_any(form) == submitted # "none"

\* Whether the submit button of `form` reads True in this run (lines 99,
\* 135, 171, 189): one click starts one run.
Clicked(form) == submitted = form

\* The requests still unanswered once the call `rq` has returned.
Answered(rq) == inflight \ {rq}

\* What the server may answer at each call site of the render pass.
HealthReplies ==
    {Timeout, Response(500, "oops"), Response(200, "{\"status\": \"ok\"}"),
     Response(200, "{\"status\": \"down\"}"), Response(200, "[1]"), Response(200, "null")}
OrdersReplies ==
    {Response(404, "nf"), Response(200, "[]"), Response(200, "[{\"id\": 1}]"),
     Response(200, "[{\"status\": \"shipped\"}]"),
     Response(200, "[{\"status\": \"pending\"}, {\"status\": \"pending\"}, {\"status\": \"delivered\"}]")}
ProductsReplies ==
    {Response(404, "nf"), Response(200, "[]"), Response(200, "{\"detail\": \"x\"}"),
     Response(200, "[{\"id\": 1, \"name\": \"A\", \"sku\": \"S1\"}]"),
     Response(200, "[{\"id\": 1, \"name\": \"A\"}]")}
CatalogReplies ==
    {ConnError, Response(200, "[]"), Response(200, "[{\"id\": 1, \"name\": \"A\"}]"),
     Response(200, "[{\"id\": 1, \"name\": \"A\", \"sku\": \"S1\"}]"),
     Response(200, "[{\"id\": 1, \"name\": \"A\", \"sku\": \"S1\"}, {\"id\": 2, \"name\": \"B\", \"sku\": \"S2\"}]")}
ListingReplies ==
    {Response(404, "nf"), Response(200, "[]"), Response(200, "[{\"status\": \"pending\"}]")}
ShippingReplies ==
    {Response(404, "nf"), Response(200, "[]"), Response(200, "[1]"), Response(200, "{\"detail\": \"x\"}")}
CreateReplies ==
    {Timeout, Response(422, "{\"detail\": \"x\"}"), Response(201, "{\"id\": 7, \"name\": \"A\"}"),
     Response(204, ""), Response(200, "[1]")}
StatusReplies ==
    {Response(404, "{\"detail\": \"x\"}"), Response(200, "{\"ok\": true}"),
     Response(200, "{\"ok\": false}"), Response(200, "{\"ok\": \"no\"}"),
     Response(200, ""), Response(200, "null"), Response(200, "[1]")}

\* What requests can yield for a URL: nothing but its refusal when the URL
\* has no scheme.
Outcomes(url, replies) == IF ValidUrl(url) THEN replies ELSE {BadUrl}

\* The texts typed in the "API Base URL" field in the render pass.
RenderInputs == {DEFAULT_API \o "/", ""}

\* The script ends: by an exception, or at its last line.
Stop(rq, msgs, exc) ==
    /\ pc' = "done"
    /\ inflight' = Answered(rq)
    /\ sent' = sent
    /\ shown' = shown \o msgs
    /\ raised' = exc

\* The script reaches the call of line `site` and sends its request.
Call(rq, msgs, site, req) ==
    /\ pc' = site
    /\ inflight' = Answered(rq) \cup {req}
    /\ sent' = Append(sent, req)
    /\ shown' = shown \o msgs
    /\ raised' = ""

\* A piece of the script: `before` is displayed, then `seg` runs; if it
\* raises the script ends there, else `after` is displayed and the call of
\* `site` is sent ("done": the script ends).
Proceed(rq, before, seg, after, site, req) ==
    IF seg.raised # "" THEN Stop(rq, before \o seg.msgs, seg.raised)
    ELSE IF site = "done" THEN Stop(rq, before \o seg.msgs \o after, "")
    ELSE Call(rq, before \o seg.msgs \o after, site, req)

\* A user action (page load or a form's submit button) starts a run: lines
\* 8-44, up to the /health call.
Rerun(text, form) ==
    /\ pc \in {"idle", "done"}
    /\ text_input' = text
    /\ API_BASE' = Normalize(text)
    /\ submitted' = form
    /\ pc' = "l44"
    /\ inflight' = {Request("GET", Normalize(text), "/health", <<>>)}
    /\ sent' = <<Request("GET", Normalize(text), "/health", <<>>)>>
    /\ shown' = <<Msg("sidebar.markdown", "Estado del API:")>>
    /\ raised' = ""
    /\ resp' = Unset /\ ret' = Unset
    /\ health' = Unset /\ orders' = Unset /\ products' = Unset /\ items' = <<>>
    /\ shipment_id' = 0 /\ new_status' = "" /\ res' = Unset

\* Lines 44-61.
Resolve44(rq, out) ==
    /\ pc = "l44" /\ rq \in inflight
    /\ LET g == api_get(API_BASE, "/health", out)
       IN  /\ resp' = out /\ ret' = g.ret /\ health' = g.ret
           /\ Proceed(rq, g.msgs, HealthIndicator(g.ret),
                      <<Msg("title", "ESA Dropshipping - Dashboard"), Msg("subheader", "Resumen")>>,
                      "l61", Request("GET", API_BASE, "/orders", <<>>))
    /\ UNCHANGED <<text_input, API_BASE, submitted, orders, products, items, shipment_id, new_status, res>>

\* Lines 61-85.
Resolve61(rq, out) ==
    /\ pc = "l61" /\ rq \in inflight
    /\ LET g == api_get(API_BASE, "/orders", out)
       IN  /\ resp' = out /\ ret' = g.ret /\ orders' = g.ret
           /\ Proceed(rq, g.msgs, OverviewPanel(g.ret), <<Msg("subheader", "Productos")>>,
                      "l85", Request("GET", API_BASE, "/products", <<>>))
    /\ UNCHANGED <<text_input, API_BASE, submitted, health, products, items, shipment_id, new_status, res>>

\* Lines 85-109, or 85-116 when the product form was not submitted.
Resolve85(rq, out) ==
    /\ pc = "l85" /\ rq \in inflight
    /\ LET g == api_get(API_BASE, "/products", out)
           p == OrEmptyList(g.ret)
       IN  /\ resp' = out /\ ret' = g.ret /\ products' = p
           /\ IF Clicked("create_product")
              THEN Proceed(rq, g.msgs, ProductsTable(p), <<>>,
                           "l109", Request("POST", API_BASE, "/products/", ProductPayload))
              ELSE Proceed(rq, g.msgs, ProductsTable(p), <<Msg("subheader", "Ordenes")>>,
                           "l116", Request("GET", API_BASE, "/products", <<>>))
    /\ UNCHANGED <<text_input, API_BASE, submitted, health, orders, items, shipment_id, new_status, res>>

\* Lines 109-116.
Resolve109(rq, out) ==
    /\ pc = "l109" /\ rq \in inflight
    /\ LET g == api_post(API_BASE, "/products/", out)
       IN  /\ resp' = out /\ ret' = g.ret /\ res' = g.ret
           /\ Proceed(rq, g.msgs, ProductCreated(g.ret), <<Msg("subheader", "Ordenes")>>,
                      "l116", Request("GET", API_BASE, "/products", <<>>))
    /\ UNCHANGED <<text_input, API_BASE, submitted, health, orders, products, items, shipment_id, new_status>>

\* Lines 116-148, or 116-154 when no order is posted.  `label` is the
\* product chosen in the selectbox and `qty` the quantity typed; the widgets
\* of a form hold their defaults (the first product, 1) in a run that the
\* form's button did not start.
Resolve116(rq, out, label, qty) ==
    /\ pc = "l116" /\ rq \in inflight
    /\ LET g == api_get(API_BASE, "/products", out)
           p == OrEmptyList(g.ret)
           pmap == ProductMap(p)
           its == Items(pmap, label, qty)
           form == IF DOMAIN pmap = {}
                   THEN <<Msg("warning", "No hay productos. Crea uno en la pestana Productos.")>>
                   ELSE <<>>
           listing == <<Msg("write", "Listado de ordenes")>>
       IN  /\ resp' = out /\ ret' = g.ret /\ products' = p
           /\ IF ProductMapError(p) # ""
              THEN /\ Stop(rq, g.msgs, ProductMapError(p))
                   /\ items' = items
              ELSE /\ label \in Options(p)
                   /\ IF DOMAIN pmap = {} THEN qty = DefaultQty
                      ELSE IF Clicked("create_order") THEN TRUE
                      ELSE label = Label(p.e[1]) /\ qty = DefaultQty
                   /\ items' = its
                   /\ IF Clicked("create_order") /\ its # <<>>
                      THEN Call(rq, g.msgs \o form, "l148",
                                Request("POST", API_BASE, "/orders/", OrderPayload(its)))
                      ELSE Call(rq, g.msgs \o form
                                    \o (IF Clicked("create_order")
                                        THEN <<Msg("error", "Agrega al menos un producto.")>>
                                        ELSE <<>>)
                                    \o listing,
                                "l154", Request("GET", API_BASE, "/orders", <<>>))
    /\ UNCHANGED <<text_input, API_BASE, submitted, health, orders, shipment_id, new_status, res>>

\* Lines 148-154.
Resolve148(rq, out) ==
    /\ pc = "l148" /\ rq \in inflight
    /\ LET g == api_post(API_BASE, "/orders/", out)
       IN  /\ resp' = out /\ ret' = g.ret /\ res' = g.ret
           /\ Proceed(rq, g.msgs, OrderCreated(g.ret), <<Msg("write", "Listado de ordenes")>>,
                      "l154", Request("GET", API_BASE, "/orders", <<>>))
    /\ UNCHANGED <<text_input, API_BASE, submitted, health, orders, products, items, shipment_id, new_status>>

\* Lines 154-180, 154-192 or 154-198, by the form submitted.  `id` and
\* `status` are the inputs of the status-update form.
Resolve154(rq, out, id, status) ==
    /\ pc = "l154" /\ rq \in inflight
    /\ LET g == api_get(API_BASE, "/orders", out)
           head == <<Msg("subheader", "Envios (Deliver Fever)")>>
       IN  /\ resp' = out /\ ret' = g.ret /\ orders' = g.ret
           /\ IF Clicked("update_status") THEN TRUE
              ELSE id = DefaultShipmentId /\ status = DefaultStatus
           /\ IF Clicked("create_shipment")
              THEN UNCHANGED <<shipment_id, new_status>>
              ELSE shipment_id' = id /\ new_status' = status
           /\ IF Clicked("create_shipment")
              THEN Proceed(rq, g.msgs, OrdersListing(g.ret), head,
                           "l180", Request("POST", API_BASE, "/shipping/create", ShipmentPayload))
              ELSE IF Clicked("update_status")
              THEN Proceed(rq, g.msgs, OrdersListing(g.ret), head,
                           "l192", Request("POST", API_BASE, StatusPath(id, status), <<>>))
              ELSE Proceed(rq, g.msgs, OrdersListing(g.ret), head,
                           "l198", Request("GET", API_BASE, "/shipping", <<>>))
    /\ UNCHANGED <<text_input, API_BASE, submitted, health, products, items, res>>

\* Lines 180-198.
Resolve180(rq, out) ==
    /\ pc = "l180" /\ rq \in inflight
    /\ LET g == api_post(API_BASE, "/shipping/create", out)
       IN  /\ resp' = out /\ ret' = g.ret /\ res' = g.ret
           /\ IF ShipmentCreated(g.ret).raised # ""
              THEN UNCHANGED <<shipment_id, new_status>>
              ELSE shipment_id' = DefaultShipmentId /\ new_status' = DefaultStatus
           /\ Proceed(rq, g.msgs, ShipmentCreated(g.ret), <<>>,
                      "l198", Request("GET", API_BASE, "/shipping", <<>>))
    /\ UNCHANGED <<text_input, API_BASE, submitted, health, orders, products, items>>

\* Lines 192-198.
Resolve192(rq, out) ==
    /\ pc = "l192" /\ rq \in inflight
    /\ LET g == api_post(API_BASE, rq.path, out)
       IN  /\ resp' = out /\ ret' = g.ret /\ res' = g.ret
           /\ Proceed(rq, g.msgs, StatusUpdated(g.ret, shipment_id, new_status), <<>>,
                      "l198", Request("GET", API_BASE, "/shipping", <<>>))
    /\ UNCHANGED <<text_input, API_BASE, submitted, health, orders, products, items, shipment_id, new_status>>

\* Lines 198-211.
Resolve198(rq, out) ==
    /\ pc = "l198" /\ rq \in inflight
    /\ LET g == api_get(API_BASE, "/shipping", out)
       IN  /\ resp' = out /\ ret' = g.ret
           /\ Proceed(rq, g.msgs, ShipmentsListing(g.ret), <<Msg("caption", "Hecho por ESA")>>,
                      "done", rq)
    /\ UNCHANGED <<text_input, API_BASE, submitted, health, orders, products, items, shipment_id, new_status, res>>

Init ==
    /\ text_input = DEFAULT_API
    /\ API_BASE = Normalize(DEFAULT_API)
    /\ pc = "idle"
    /\ submitted = "none"
    /\ inflight = {}
    /\ sent = <<>>
    /\ resp = Unset /\ ret = Unset
    /\ shown = <<>>
    /\ raised = ""
    /\ health = Unset /\ orders = Unset /\ products = Unset /\ items = <<>>
    /\ shipment_id = 0 /\ new_status = "" /\ res = Unset

Next ==
    \/ \E text \in RenderInputs, form \in Forms \cup {"none"} : Rerun(text, form)
    \/ \E rq \in inflight : \E out \in Outcomes(rq.url, HealthReplies) : Resolve44(rq, out)
    \/ \E rq \in inflight : \E out \in Outcomes(rq.url, OrdersReplies) : Resolve61(rq, out)
    \/ \E rq \in inflight : \E out \in Outcomes(rq.url, ProductsReplies) : Resolve85(rq, out)
    \/ \E rq \in inflight : \E out \in Outcomes(rq.url, CreateReplies) : Resolve109(rq, out)
    \/ \E rq \in inflight : \E out \in Outcomes(rq.url, CatalogReplies) :
          \E label \in Options(OrEmptyList(api_get(API_BASE, "/products", out).ret)),
             qty \in 1..MaxQty : Resolve116(rq, out, label, qty)
    \/ \E rq \in inflight : \E out \in Outcomes(rq.url, CreateReplies) : Resolve148(rq, out)
    \/ \E rq \in inflight : \E out \in Outcomes(rq.url, ListingReplies) :
          \E id \in 1..MaxShipmentId, status \in StatusChoices : Resolve154(rq, out, id, status)
    \/ \E rq \in inflight : \E out \in Outcomes(rq.url, CreateReplies) : Resolve180(rq, out)
    \/ \E rq \in inflight : \E out \in Outcomes(rq.url, StatusReplies) : Resolve192(rq, out)
    \/ \E rq \in inflight : \E out \in Outcomes(rq.url, ShippingReplies) : Resolve198(rq, out)

Spec == Init /\ [][Next]_vars

----------------------------------------------------------------------------
(* The helpers on their own: the base URL is set from any text, and        *)
(* api_get and api_post are called once each time, with any outcome.       *)

TextInputs ==
    {DEFAULT_API, DEFAULT_API \o "/", DEFAULT_API \o "//", "http://localhost:8000/", "/", ""}

GetPaths == {"/health", "/orders", "/products", "/shipping"}
PostPaths == {"/products/", "/orders/", "/shipping/create", StatusPath(DefaultShipmentId, DefaultStatus)}

ClientStatuses == {200, 204, 300, 404, 500}
ClientBodies == {"", "null", "{}", "[]", "<html>", "{\"ok\": true}"}
ClientReplies ==
    {Timeout, ConnError} \cup {Response(st, b) : st \in ClientStatuses, b \in ClientBodies}

\* Lines 12-17: the field is edited (or filled from the secret).
Configure(text) ==
    /\ pc = "idle"
    /\ text_input' = text
    /\ API_BASE' = Normalize(text)
    /\ sent' = <<>> /\ shown' = <<>> /\ resp' = Unset /\ ret' = Unset
    /\ UNCHANGED <<pc, submitted, inflight, raised, health, orders, products, items,
                   shipment_id, new_status, res>>

\* One call of api_get (lines 19-27).
Get(path, out) ==
    /\ pc = "idle"
    /\ sent' = <<Request("GET", API_BASE, path, <<>>)>>
    /\ resp' = out
    /\ ret' = api_get(API_BASE, path, out).ret
    /\ shown' = api_get(API_BASE, path, out).msgs
    /\ UNCHANGED <<text_input, API_BASE, pc, submitted, inflight, raised, health, orders,
                   products, items, shipment_id, new_status, res>>

\* One call of api_post (lines 29-41).
Post(path, out) ==
    /\ pc = "idle"
    /\ sent' = <<Request("POST", API_BASE, path, <<>>)>>
    /\ resp' = out
    /\ ret' = api_post(API_BASE, path, out).ret
    /\ shown' = api_post(API_BASE, path, out).msgs
    /\ UNCHANGED <<text_input, API_BASE, pc, submitted, inflight, raised, health, orders,
                   products, items, shipment_id, new_status, res>>

NextClient ==
    \/ \E text \in TextInputs : Configure(text)
    \/ \E path \in GetPaths : \E out \in Outcomes(API_BASE \o path, ClientReplies) : Get(path, out)
    \/ \E path \in PostPaths : \E out \in Outcomes(API_BASE \o path, ClientReplies) : Post(path, out)

SpecClient == Init /\ [][NextClient]_vars

----------------------------------------------------------------------------
(* The properties.                                                         *)

\* The helper call of SpecClient that has just returned.
LastCall == sent[Len(sent)]
GetReturned == pc = "idle" /\ sent # <<>> /\ LastCall.method = "GET"
PostReturned == pc = "idle" /\ sent # <<>> /\ LastCall.method = "POST"

\* An error message with `u` in its text is displayed.
ErrorShownWith(u) == \E m \in Range(shown) : m.fn = "error" /\ Contains(m.text, u)

Is2xx(r) == r.kind = "resp" /\ r.status >= 200 /\ r.status < 300
Is4xx5xx(r) == r.kind = "resp" /\ r.status >= 400 /\ r.status < 600
BodyIsJson(r) == r.kind = "resp" /\ r.text \in DOMAIN JsonDocs

\* C1, as stated: after every GET that times out, fails to connect, gets a
\* status other than 2xx or gets a body that is not JSON, api_get has
\* returned null and displayed an error containing base URL + path; after
\* every other GET it has returned the parsed body.
C1_AnyNon2xxIsNull ==
    GetReturned =>
        IF Is2xx(resp) /\ BodyIsJson(resp)
        THEN ret = JsonDocs[resp.text]
        ELSE ret = None /\ ErrorShownWith(API_BASE \o LastCall.path)

\* C1, amended: after every GET that raises in the transport, gets a 4xx or
\* 5xx status or gets a body that is not JSON, api_get has returned null and
\* displayed an error containing the requested URL (resolved base URL +
\* path); after every other GET (any other status with a JSON body) it has
\* returned the parsed body and displayed nothing.
C1_ErrorsAreNull ==
    GetReturned =>
        IF resp.kind = "resp" /\ ~Is4xx5xx(resp) /\ BodyIsJson(resp)
        THEN ret = JsonDocs[resp.text] /\ shown = <<>>
        ELSE ret = None /\ ErrorShownWith(API_BASE \o LastCall.path)

C1_Witness ==
    /\ GetReturned /\ resp = Response(404, "{}") /\ ret = None
    /\ ErrorShownWith(DEFAULT_API \o "/orders")

\* C4: after every POST answered with a 4xx or 5xx status, api_post has
\* returned null and one displayed error holds both the status code and the
\* raw body.
C4_PostErrorStatus ==
    (PostReturned /\ Is4xx5xx(resp)) =>
        /\ ret = None
        /\ \E m \in Range(shown) :
              /\ m.fn = "error"
              /\ Contains(m.text, ToString(resp.status) \o ": " \o resp.text)

C4_Witness ==
    /\ PostReturned /\ resp = Response(500, "<html>") /\ ret = None
    /\ Len(shown) = 2

\* The POST failed: the transport raised, the status is 4xx/5xx, or the
\* body is there and is not JSON.
PostFailed(r) ==
    \/ r.kind = "exc"
    \/ Is4xx5xx(r)
    \/ (r.text # "" /\ ~BodyIsJson(r))

\* C5, as stated: after a POST answered 2xx with an empty body api_post has
\* returned the empty record, and it has returned null only after a POST
\* that failed.
C5_NullOnlyOnFailure ==
    PostReturned =>
        /\ (Is2xx(resp) /\ resp.text = "") => (ret = EmptyDict /\ ret # None)
        /\ ret = None => PostFailed(resp)

\* C5, amended: after a POST answered 2xx with an empty body api_post has
\* returned the empty record; it has returned null only after a POST that
\* failed or whose body is the JSON text null.
C5_EmptyBodyIsRecord ==
    PostReturned =>
        /\ (Is2xx(resp) /\ resp.text = "") => (ret = EmptyDict /\ ret # None)
        /\ ret = None => (PostFailed(resp) \/ resp.text = "null")

C5_Witness ==
    /\ PostReturned /\ resp = Response(204, "") /\ ret = EmptyDict /\ shown = <<>>

\* C9, as stated: the resolved base URL never ends with a slash.
C9_NoTrailingSlash == ~EndsWith(API_BASE, "/")

\* C9, amended: the resolved base URL is the field's text without its last
\* character when that is a slash, and the text itself otherwise; so it has
\* no trailing slash unless the text ends with two; and it is what every
\* request URL starts with.
C9_OneSlashCut ==
    /\ IF EndsWith(text_input, "/") THEN API_BASE \o "/" = text_input ELSE API_BASE = text_input
    /\ ~EndsWith(text_input, "//") => ~EndsWith(API_BASE, "/")
    /\ \A i \in 1..Len(sent) : sent[i].url = API_BASE \o sent[i].path

C9_Witness ==
    /\ text_input = DEFAULT_API \o "//" /\ API_BASE = DEFAULT_API \o "/"
    /\ sent # <<>> /\ LastCall.url = DEFAULT_API \o "//health"

----------------------------------------------------------------------------
(* Properties of the render pass.                                          *)

Shown(fn, txt) == Msg(fn, txt) \in Range(shown)
Posts == {i \in 1..Len(sent) : sent[i].method = "POST"}
Gets == {i \in 1..Len(sent) : sent[i].method = "GET"}

\* C2: no run of the script ends by an exception, and a run that is over
\* has rendered the four panels.
C2_NoException ==
    /\ raised = ""
    /\ pc = "done" =>
          /\ Shown("subheader", "Resumen") /\ Shown("subheader", "Productos")
          /\ Shown("subheader", "Ordenes") /\ Shown("subheader", "Envios (Deliver Fever)")

\* The catalog fetch of the Orders panel (line 116) has been answered.
CatalogFetched == Cardinality(Gets) >= 4 /\ pc # "l116"
OrderPosts == {i \in Posts : sent[i].path = "/orders/"}

\* C3: in a run started by the order form's button, once the script is over:
\* if the catalog fetch gave nothing (an empty list, null or a failure), no
\* POST /orders/ was sent and the blocking error is displayed; if it gave a
\* non-empty list of products, exactly one POST /orders/ was sent, with one
\* item, the id of a product of the list and the quantity typed.
C3_OrderForm ==
    (pc = "done" /\ submitted = "create_order" /\ CatalogFetched) =>
        /\ products = EmptyList =>
              (OrderPosts = {} /\ Shown("error", "Agrega al menos un producto."))
        /\ (products.t = "list" /\ Len(products.e) > 0) =>
              /\ Cardinality(OrderPosts) = 1
              /\ \A i \in OrderPosts :
                    /\ Len(sent[i].json.items) = 1
                    /\ \E j \in 1..Len(products.e) :
                          /\ "id" \in DOMAIN products.e[j].f
                          /\ sent[i].json.items[1].product_id = products.e[j].f["id"]
                    /\ sent[i].json.items[1].qty \in 1..MaxQty

\* The status-update POST of this run has been answered and line 193 is past.
StatusUpdateDone == submitted = "update_status" /\ res # Unset /\ pc \in {"l198", "done"}
SuccessShown == Shown("success", "Shipment " \o ToString(shipment_id) \o " -> " \o new_status)

Falsy == {None, JBool(FALSE), JNum(0), JStr(""), EmptyList, EmptyDict}

C7_HealthIndicator ==
    health # Unset =>
        /\ IF health.t = "obj" /\ "status" \in DOMAIN health.f /\ health.f["status"] = JStr("ok")
           THEN Shown("sidebar.success", "Conectado") /\ ~Shown("sidebar.error", "Sin conexion")
           ELSE Shown("sidebar.error", "Sin conexion") /\ ~Shown("sidebar.success", "Conectado")
        /\ Cardinality({i \in Gets : sent[i].path = "/health"}) = 1

\* The Overview panel has just run: its fetch (line 61) is the last one answered.
OverviewDone == orders # Unset /\ (pc = "l85" \/ (pc = "done" /\ Len(sent) = 2))
OrdersWith(status) ==
    {j \in 1..Len(orders.e) :
        /\ orders.e[j].t = "obj" /\ "status" \in DOMAIN orders.e[j].f
        /\ orders.e[j].f["status"] = JStr(status)}

\* C8: after the Overview panel: for a non-empty order list the five metrics
\* are displayed, each the number of orders of the list with its status, and
\* sum to at most the number of orders; for null the guidance text is
\* displayed, for an empty list the "no orders" message.
C8_Overview ==
    OverviewDone =>
        /\ (orders.t = "list" /\ Len(orders.e) > 0) =>
              /\ \A i \in 1..5 :
                    Metric(MetricLabels[i], Cardinality(OrdersWith(MetricStatuses[i]))) \in Range(shown)
              /\ Cardinality(UNION {OrdersWith(MetricStatuses[i]) : i \in 1..5}) <= Len(orders.e)
        /\ orders = None => Shown("info", "Aun no existe el endpoint GET /orders")
        /\ orders = EmptyList => Shown("info", "No hay ordenes aun")

\* C10, as stated: a run sends at most one request.
C10_OneCallPerAction ==
    /\ Len(sent) <= 1
    /\ Cardinality(inflight) <= 1
    /\ Cardinality(Posts) <= 1

\* C10, amended: a run (one user action) sends up to six GETs (/health,
\* /orders, /products, /products, /orders, /shipping) and at most one POST,
\* one after the other: at most one request is unanswered at any time, and
\* it is the last one sent.
C10_Sequential ==
    /\ Cardinality(inflight) <= 1
    /\ \A rq \in inflight : rq = sent[Len(sent)]
    /\ Cardinality(Posts) <= 1
    /\ Cardinality(Gets) <= 6
    /\ \A i \in Posts : submitted \in Forms

C10_Witness ==
    /\ pc = "done" /\ raised = "" /\ Cardinality(Gets) = 6 /\ Cardinality(Posts) = 1

====
